---------------------------- MODULE Spec2Model ----------------------------
(***************************************************************************)
(* Frame-level end-to-end encryption of the client SDK: the E2EEManager of *)
(* src/src/room/track/ee2e.ts (key ring, key rotation, nonce construction, *)
(* encodeFunction / decodeFunction) as hosted by the worker of             *)
(* src/src/worker/worker.ts.                                               *)
(*                                                                         *)
(* Every await of the source is a point where other handlers may run, so   *)
(* an async method is one action per stretch of code between two awaits.   *)
(* WebCrypto (importKey, deriveKey, encrypt, decrypt) is outside the       *)
(* repository; it is modelled by an ideal key-derivation function and an   *)
(* authenticated cipher over bytes that has AES-GCM's interface: the       *)
(* ciphertext is the plaintext length plus a 16 byte tag, and decryption   *)
(* succeeds only under the same key, nonce and additional data.            *)
(***************************************************************************)
EXTENDS Integers, Sequences, FiniteSets, TLC

----------------------------------------------------------------------------
(* Program constants *)

\* ee2e.ts:111
IV_LENGTH == 12

\* ee2e.ts:141
KEY_RING_SIZE == 256

\* ee2e.ts:434 and ee2e.ts:441: the literal 0xffff
SEND_COUNT_MODULUS == 65535

\* AES-GCM's default tag length in bytes (no tagLength is passed, ee2e.ts:311-315)
TAG_LENGTH == 16

\* ee2e.ts:133-137
UNENCRYPTED_BYTES(type) ==
  CASE type = "key" -> 10
    [] type = "delta" -> 3
    [] type = "undefined" -> 1

\* An empty slot of the key ring, an unset presharedKey
Undefined == 0

----------------------------------------------------------------------------
(* Bounds of the model *)

\* setPassword messages handled by one manager
MaxSetPassword == 1
\* rotateKey calls that advance the index, per manager, in Spec
MaxRotate == 2
\* frames given to the encode pipes, over all managers, in Spec
MaxEncodes == 1
\* frames given to the decode pipes, over all managers, in Spec
MaxDecodes == 1
\* rotateKey calls that advance the index in SpecRotate
RotateRun == 258
\* makeIV calls in SpecIV
Window == 1000
\* makeIV calls in SpecIVLong
LongRun == 65538
\* the calls of SpecIVLong whose nonce may be the remembered one
MarkCap == 2
\* frames given to each pipe in SpecFlow
MaxFlow == 2
\* messages with an effect handled by the registry worker in SpecRegistry
MaxMessages == 4
\* setPassword calls of the re-keying runs
MaxRekey == 3
\* makeIV calls of the re-keying runs
MaxNonces == 1
\* key-set operations on the key provider
MaxKeySets == 3
\* setPassword calls of the runs that re-key while frames flow
MaxSecrets == 2
\* makeIV calls of the send counter runs
MaxCounts == 3
\* derivations a prefill may be ahead by when a later secret is imported
MaxLead == 2

----------------------------------------------------------------------------
(* Inputs *)

Managers == {"A", "B"}

Passwords == {"", "test-pass", "other-pass"}

\* Math.floor(Math.random() * 0xffff) is in 0 .. 65534
Seeds == {0, 65534}

Rep(n, b) == [i \in 1..n |-> b]

MkFrame(type, ssrc, ts, data) ==
  [type |-> type, ssrc |-> ssrc, timestamp |-> ts, data |-> data]

\* the frame of the concrete scenario: 20 bytes of 0xAB in a key frame
ScenarioFrame == MkFrame("key", 12345, 1000, Rep(20, 171))

Frames ==
  { ScenarioFrame,
    MkFrame("key", 12345, 1000, Rep(10, 7)),
    MkFrame("key", 12345, 1000, <<1, 2, 3, 4, 5>>),
    MkFrame("delta", 12345, 1000, <<9, 8, 7, 6>>),
    MkFrame("delta", 777, 2147483647, <<5, 5>>),
    MkFrame("undefined", 777, 2000, <<42>>),
    MkFrame("undefined", 777, 2000, <<42, 12, 0>>),
    MkFrame("undefined", 12345, 1000, <<>>) }

----------------------------------------------------------------------------
(* Bytes *)

\* DataView.setUint32(offset, n): the four bytes of n, big-endian. The
\* numbers of the model stay below 2^31, so no bit above the 32nd is cut.
BE32(n) ==
  << (n \div 16777216) % 256, (n \div 65536) % 256, (n \div 256) % 256, n % 256 >>

\* new Uint8Array(buffer, offset, length) as a copy of the bytes it views
Slice(s, offset, length) == SubSeq(s, offset + 1, offset + length)

RECURSIVE DigestFrom(_, _)
DigestFrom(s, i) ==
  IF i > Len(s) THEN 0
  ELSE ((2 * i + 1) * (s[i] + 1) + DigestFrom(s, i + 1)) % 256

\* a checksum that every change of a single byte changes
Digest(s) == DigestFrom(s, 1)

----------------------------------------------------------------------------
(* WebCrypto *)

\* generatePresharedKey: importKey of the password bytes; distinct passwords
\* give distinct key material
generatePresharedKey(password) ==
  CASE password = "test-pass" -> 1
    [] password = "other-pass" -> 2
    [] password = "" -> 3

\* a derivation that ignores the base key
deriveKeySaltOnly(base, salt) == 256 + (salt % 256)

\* crypto.subtle.deriveKey(PBKDF2, salt = one byte, presharedKey): the key
\* material is a function of the base key and the salt byte, and injective
deriveKey(base, salt) == base * 256 + (salt % 256)

KeyStream(key, iv, i) == (key + Digest(iv) + 7 * i) % 256

AeadTag(key, iv, aad, body) ==
  << key % 256, (key \div 256) % 256, Digest(iv), Digest(aad), Digest(body),
     Len(iv) % 256, Len(aad) % 256, Len(body) % 256 >> \o Rep(TAG_LENGTH - 8, 0)

\* crypto.subtle.encrypt with AES-GCM: ciphertext || tag
AeadEncrypt(key, iv, aad, plain) ==
  LET body == [i \in 1..Len(plain) |-> (plain[i] + KeyStream(key, iv, i)) % 256]
  IN  body \o AeadTag(key, iv, aad, body)

\* crypto.subtle.decrypt with AES-GCM: rejects unless the tag verifies
AeadDecrypt(key, iv, aad, cipher) ==
  IF Len(cipher) < TAG_LENGTH THEN [ok |-> FALSE, plain |-> <<>>]
  ELSE LET n == Len(cipher) - TAG_LENGTH
           body == SubSeq(cipher, 1, n)
           tag == SubSeq(cipher, n + 1, Len(cipher))
       IN  IF tag = AeadTag(key, iv, aad, body)
           THEN [ok |-> TRUE,
                 plain |-> [i \in 1..n |-> (body[i] + 256 - KeyStream(key, iv, i)) % 256]]
           ELSE [ok |-> FALSE, plain |-> <<>>]

----------------------------------------------------------------------------
(* State *)

VARIABLES
  keyRing,        \* manager -> the populated slots of keyRing: index -> key
  currentKeyId,   \* manager -> currentKeyId
  sendCounts,     \* manager -> the Map sendCounts: SSRC -> count
  presharedKey,   \* manager -> presharedKey, or Undefined
  pwCalls,        \* manager -> the setPassword calls, each with its position
  rotated,        \* manager -> rotateKey calls that advanced since currentKeyId was 0
  encPipe,        \* manager -> the encode call waiting for crypto.subtle.encrypt
  decPipe,        \* manager -> the decode call waiting for crypto.subtle.decrypt
  encLog,         \* manager -> the finished encode calls with what they enqueued
  decLog,         \* manager -> the finished decode calls with what they enqueued
  ivCalls,        \* manager -> number of makeIV calls
  lastIV,         \* manager -> the nonce the latest makeIV call returned
  markIV,         \* manager -> a remembered earlier nonce
  markAt,         \* manager -> the makeIV call that returned markIV, 0 if none
  rotLog,         \* manager -> what the latest rotateKey call found and left
  pipeError,      \* manager -> per pipe, whether a transform threw or rejected
  participantCryptors, \* registry worker: the Map participant id -> cryptor
  sharedCryptor,  \* registry worker: the shared cryptor, or Undefined
  cryptors,       \* registry worker: the Cryptor instances created so far
  boundPipes,     \* registry worker: the transform() calls and their cryptor
  workerErrors,   \* registry worker: the messages whose handler threw
  keyInfoMap,     \* key provider: the Map keyInfoMap, in insertion order
  pendingSetKey,  \* key provider: setKey calls awaiting their key material
  heldKeys,       \* key provider: the array an earlier getKeys call returned
  keySets         \* key provider: the onSetEncryptionKey calls so far

vars == << keyRing, currentKeyId, sendCounts, presharedKey, pwCalls, rotated,
           encPipe, decPipe, encLog, decLog, ivCalls, lastIV, markIV, markAt,
           rotLog, pipeError, participantCryptors, sharedCryptor, cryptors,
           boundPipes, workerErrors, keyInfoMap, pendingSetKey, heldKeys, keySets >>

keyVars == << keyRing, currentKeyId, presharedKey, pwCalls, rotated, rotLog >>
ivVars == << sendCounts, ivCalls, lastIV, markIV, markAt >>
pipeVars == << encPipe, decPipe, encLog, decLog, pipeError >>
\* the E2EEManager instances
managerVars == << keyVars, ivVars, pipeVars >>
\* the registry worker
regVars == << participantCryptors, sharedCryptor, cryptors, boundPipes, workerErrors >>
\* the key provider
kpVars == << keyInfoMap, pendingSetKey, heldKeys, keySets >>
\* what no method of E2EEManager touches
outerVars == << regVars, kpVars >>

\* no rotateKey call yet
NoRotate == [called |-> FALSE]

\* no array held
NoArray == [held |-> FALSE]

\* constructor (ee2e.ts:192-196)
Init ==
  /\ keyRing = [m \in Managers |-> << >>]
  /\ currentKeyId = [m \in Managers |-> 0]
  /\ sendCounts = [m \in Managers |-> << >>]
  /\ presharedKey = [m \in Managers |-> Undefined]
  /\ pwCalls = [m \in Managers |-> << >>]
  /\ rotated = [m \in Managers |-> 0]
  /\ encPipe = [m \in Managers |-> << >>]
  /\ decPipe = [m \in Managers |-> << >>]
  /\ encLog = [m \in Managers |-> << >>]
  /\ decLog = [m \in Managers |-> << >>]
  /\ ivCalls = [m \in Managers |-> 0]
  /\ lastIV = [m \in Managers |-> << >>]
  /\ markIV = [m \in Managers |-> << >>]
  /\ markAt = [m \in Managers |-> 0]
  /\ rotLog = [m \in Managers |-> NoRotate]
  /\ pipeError = [m \in Managers |-> [encode |-> FALSE, decode |-> FALSE]]
  /\ participantCryptors = << >>
  /\ sharedCryptor = Undefined
  /\ cryptors = << >>
  /\ boundPipes = << >>
  /\ workerErrors = << >>
  /\ keyInfoMap = << >>
  /\ pendingSetKey = << >>
  /\ heldKeys = NoArray
  /\ keySets = << >>

----------------------------------------------------------------------------
(* Key ring *)

\* this.keyRing[id]
KeyAt(m, id) == IF id \in DOMAIN keyRing[m] THEN keyRing[m][id] ELSE Undefined

\* get currentCryptoKey (ee2e.ts:240-242)
currentCryptoKey(m) == KeyAt(m, currentKeyId[m])

\* every slot of the ring of m holds the key derived from base for that slot
RingFullFrom(m, base) ==
  keyRing[m] = [j \in 0..(KEY_RING_SIZE - 1) |-> deriveKey(base, j)]

\* the base the whole ring of m is derived from, Undefined if there is none
RingBase(m) ==
  IF presharedKey[m] # Undefined /\ RingFullFrom(m, presharedKey[m])
  THEN presharedKey[m] ELSE Undefined

\* a salt byte that is the id itself
saltKeyIdUnshifted(id) == id

\* the base key a key of the ring was derived from
KeyBase(key) == key \div KEY_RING_SIZE

\* the populated slots of the ring of m hold keys derived from different
\* base keys
RingMixed(m) ==
  Cardinality({KeyBase(keyRing[m][j]) : j \in DOMAIN keyRing[m]}) > 1

\* the salt byte generateNextKeyForId derives the key for id with (ee2e.ts:214-216)
saltKeyId(id) == (id + 1) % KEY_RING_SIZE

\* a prefill that fills slot 0 first and the other slots from the top down
prefillNextKeyIdDown(id) == (KEY_RING_SIZE - id) % KEY_RING_SIZE

\* a prefill that stores the key for id in slot id
prefillNextKeyIdSame(id) == id

\* the slot prefillKeyRing stores the key for id in (ee2e.ts:235)
prefillNextKeyId(id) == (id + 1) % KEY_RING_SIZE

\* a rotation that stays on the current index
rotateNextKeyIdStay(id) == id

\* a rotation that does not wrap
rotateNextKeyIdNoWrap(id) == id + 1

\* a rotation that wraps one index early
rotateNextKeyIdShort(id) == (id + 1) % (KEY_RING_SIZE - 1)

\* the index rotateKey moves to (ee2e.ts:248)
rotateNextKeyId(id) == (id + 1) % KEY_RING_SIZE

\* a setPassword call of m is waiting for a key derivation
InFlight(m) ==
  \E k \in 1..Len(pwCalls[m]) : pwCalls[m][k].pc \in {"import", "derive"}

\* a setPassword that derives a base key from any password
setPasswordEntryAlways(password) == "import"

\* where setPassword goes from its test of the password (ee2e.ts:199): to
\* the await of generatePresharedKey, or to its end
setPasswordEntry(password) == IF password # "" THEN "import" ELSE "done"

\* setPassword up to its first await (ee2e.ts:198-200, worker.ts:31-33)
setPassword(m, password) ==
  /\ pwCalls' = [pwCalls EXCEPT ![m] = Append(@,
        [password |-> password,
         pc |-> setPasswordEntry(password),
         i |-> 0, base |-> Undefined])]
  /\ UNCHANGED << keyRing, currentKeyId, presharedKey, rotated, rotLog >>
  /\ UNCHANGED ivVars
  /\ UNCHANGED pipeVars
  /\ UNCHANGED outerVars

\* generateNextKeyForId up to its await (ee2e.ts:209-228): the base key the
\* pending derivation reads is this.presharedKey at the time of the call
generateNextKeyForId(call, id, preshared) ==
  [call EXCEPT !.pc = "derive", !.i = id, !.base = preshared]

\* setPassword from the resolution of generatePresharedKey to the first
\* await of prefillKeyRing (ee2e.ts:200-203, 232-234)
ImportResolved(m, k) ==
  /\ k \in 1..Len(pwCalls[m])
  /\ pwCalls[m][k].pc = "import"
  /\ LET base == generatePresharedKey(pwCalls[m][k].password)
     IN  /\ presharedKey' = [presharedKey EXCEPT ![m] = base]
         /\ currentKeyId' = [currentKeyId EXCEPT ![m] = 0]
         /\ rotated' = [rotated EXCEPT ![m] = 0]
         /\ pwCalls' = [pwCalls EXCEPT ![m][k] = generateNextKeyForId(@, 0, base)]
  /\ UNCHANGED << keyRing, rotLog >>
  /\ UNCHANGED ivVars
  /\ UNCHANGED pipeVars
  /\ UNCHANGED outerVars

\* a prefill loop that stops one iteration early
prefillContinuesShort(i) == i < KEY_RING_SIZE - 1

\* the loop condition of prefillKeyRing (ee2e.ts:233)
prefillContinues(i) == i < KEY_RING_SIZE

\* the rejection of generatePresharedKey (ee2e.ts:200): setPassword has no
\* error handler, the call ends with the rejection
ImportRejected(m, k) ==
  /\ k \in 1..Len(pwCalls[m])
  /\ pwCalls[m][k].pc = "import"
  /\ pwCalls' = [pwCalls EXCEPT ![m][k].pc = "failed"]
  /\ UNCHANGED << keyRing, currentKeyId, presharedKey, rotated, rotLog >>
  /\ UNCHANGED ivVars
  /\ UNCHANGED pipeVars
  /\ UNCHANGED outerVars

\* the rejection of crypto.subtle.deriveKey (ee2e.ts:217-228, 234): neither
\* generateNextKeyForId, prefillKeyRing nor setPassword has an error handler,
\* the call ends with the rejection and the ring stays as far as it was filled
DeriveRejected(m, k) ==
  /\ k \in 1..Len(pwCalls[m])
  /\ pwCalls[m][k].pc = "derive"
  /\ pwCalls' = [pwCalls EXCEPT ![m][k].pc = "failed"]
  /\ UNCHANGED << keyRing, currentKeyId, presharedKey, rotated, rotLog >>
  /\ UNCHANGED ivVars
  /\ UNCHANGED pipeVars
  /\ UNCHANGED outerVars

\* prefillKeyRing from the resolution of one derivation to the next await, or
\* to the end of setPassword (ee2e.ts:229, 233-237, 205)
DeriveResolved(m, k) ==
  /\ k \in 1..Len(pwCalls[m])
  /\ pwCalls[m][k].pc = "derive"
  /\ LET call == pwCalls[m][k]
         nextKeyId == prefillNextKeyId(call.i)
         key == deriveKey(call.base, saltKeyId(call.i))
     IN  /\ keyRing' = [keyRing EXCEPT ![m] = (nextKeyId :> key) @@ @]
         /\ pwCalls' = [pwCalls EXCEPT ![m][k] =
               IF prefillContinues(call.i + 1)
               THEN generateNextKeyForId(call, call.i + 1, presharedKey[m])
               ELSE [call EXCEPT !.pc = "done", !.i = KEY_RING_SIZE]]
  /\ UNCHANGED << currentKeyId, presharedKey, rotated, rotLog >>
  /\ UNCHANGED ivVars
  /\ UNCHANGED pipeVars
  /\ UNCHANGED outerVars

\* rotateKey (ee2e.ts:244-258)
rotateKey(m) ==
  /\ IF currentCryptoKey(m) # Undefined
     THEN /\ currentKeyId' = [currentKeyId EXCEPT ![m] = rotateNextKeyId(@)]
          /\ rotated' = [rotated EXCEPT ![m] = @ + 1]
     ELSE UNCHANGED << currentKeyId, rotated >>
  /\ UNCHANGED << keyRing, presharedKey, pwCalls >>
  /\ UNCHANGED ivVars
  /\ UNCHANGED pipeVars
  /\ UNCHANGED outerVars
  /\ rotLog' = [rotLog EXCEPT ![m] =
        [called |-> TRUE,
         hadKey |-> currentCryptoKey(m) # Undefined,
         before |-> currentKeyId[m],
         after |-> currentKeyId'[m],
         ringKept |-> keyRing'[m] = keyRing[m],
         baseKept |-> presharedKey'[m] = presharedKey[m],
         countsKept |-> sendCounts'[m] = sendCounts[m],
         hadCounts |-> sendCounts[m] # << >>,
         pending |-> encPipe[m] # << >>]]

\* a lookup that ignores the id and takes the current key
getKeyForIdCurrent(m, id) == KeyAt(m, currentKeyId[m])

\* getKeyForId (ee2e.ts:260-266): Undefined stands for the thrown error
getKeyForId(m, id) == KeyAt(m, id)

----------------------------------------------------------------------------
(* Key rotation on one manager: one setPassword, then rotateKey calls *)

NextRotate ==
  \/ (Len(pwCalls["A"]) < MaxSetPassword /\ setPassword("A", "test-pass"))
  \/ \E k \in 1..MaxSetPassword : ImportResolved("A", k)
  \/ \E k \in 1..MaxSetPassword : DeriveResolved("A", k)
  \/ (rotated["A"] < RotateRun /\ rotateKey("A"))

SpecRotate == Init /\ [][NextRotate]_vars

----------------------------------------------------------------------------
(* Nonce construction *)

\* the stored send count makeIV reads: the Map entry, or the random seed it
\* first stores for a new SSRC (ee2e.ts:432-437)
sendCount(m, ssrc, seed) ==
  IF ssrc \in DOMAIN sendCounts[m] THEN sendCounts[m][ssrc] ELSE seed

\* a counter field of one byte
ivCounterByte(count) == count % 256

\* the counter field of the nonce (ee2e.ts:441)
ivCounter(count) == count % SEND_COUNT_MODULUS

\* the 12 bytes makeIV returns (ee2e.ts:439-441)
makeIV(m, ssrc, ts, seed) ==
  BE32(ssrc) \o BE32(ts) \o BE32(ivCounter(sendCount(m, ssrc, seed)))

\* a makeIV that stores the count it read
sendCountsAfterStuck(m, ssrc, seed) ==
  (ssrc :> sendCount(m, ssrc, seed)) @@ sendCounts[m]

\* a makeIV that keeps the counter of the SSRC it was called for only
sendCountsAfterAlone(m, ssrc, seed) ==
  (ssrc :> (sendCount(m, ssrc, seed) + 1))

\* the Map sendCounts after makeIV (ee2e.ts:443)
sendCountsAfter(m, ssrc, seed) ==
  (ssrc :> (sendCount(m, ssrc, seed) + 1)) @@ sendCounts[m]

\* the effect of one makeIV call of manager m; mark says whether the
\* observer remembers the nonce of this call
makeIVEffect(m, ssrc, ts, seed, mark) ==
  /\ sendCounts' = [sendCounts EXCEPT ![m] = sendCountsAfter(m, ssrc, seed)]
  /\ ivCalls' = [ivCalls EXCEPT ![m] = @ + 1]
  /\ lastIV' = [lastIV EXCEPT ![m] = makeIV(m, ssrc, ts, seed)]
  /\ IF mark /\ markAt[m] = 0
     THEN /\ markIV' = [markIV EXCEPT ![m] = makeIV(m, ssrc, ts, seed)]
          /\ markAt' = [markAt EXCEPT ![m] = ivCalls[m] + 1]
     ELSE UNCHANGED << markIV, markAt >>

\* a call of the method makeIV (ee2e.ts:427-446)
makeIVCall(m, ssrc, ts, seed, mark) ==
  /\ makeIVEffect(m, ssrc, ts, seed, mark)
  /\ UNCHANGED keyVars
  /\ UNCHANGED pipeVars
  /\ UNCHANGED outerVars

\* the SSRC and the timestamps of the nonce runs
FixedSsrc == ScenarioFrame.ssrc
FixedTimestamp == ScenarioFrame.timestamp
Timestamps == {FixedTimestamp, 2000}

\* the seeds Math.random can give a call: they matter only for a new SSRC
SeedsFor(m, ssrc) == IF ssrc \in DOMAIN sendCounts[m] THEN {0} ELSE Seeds

\* the observer remembers one nonce only
MarksFor(m) == IF markAt[m] = 0 THEN BOOLEAN ELSE {FALSE}

\* Window makeIV calls on one SSRC with any timestamps; the observer
\* remembers the nonce of any one call
NextIV ==
  \E ts \in Timestamps, seed \in SeedsFor("A", FixedSsrc), mark \in MarksFor("A") :
    /\ ivCalls["A"] < Window
    /\ makeIVCall("A", FixedSsrc, ts, seed, mark)

SpecIV == Init /\ [][NextIV]_vars

\* LongRun makeIV calls on one SSRC with one timestamp; the observer
\* remembers the nonce of one of the first MarkCap calls
NextIVLong ==
  \E seed \in SeedsFor("A", FixedSsrc), mark \in MarksFor("A") :
    /\ ivCalls["A"] < LongRun
    /\ mark => ivCalls["A"] < MarkCap
    /\ makeIVCall("A", FixedSsrc, FixedTimestamp, seed, mark)

SpecIVLong == Init /\ [][NextIVLong]_vars

----------------------------------------------------------------------------
(* Re-keying one manager: setPassword calls with a non-empty password one
   after the other, empty passwords at any time, rotateKey and makeIV calls
   in between *)

NextRekey ==
  \/ \E password \in Passwords :
       /\ Len(pwCalls["A"]) < MaxRekey
       /\ password # "" => ~InFlight("A")
       /\ setPassword("A", password)
  \/ \E k \in 1..MaxRekey : ImportResolved("A", k)
  \/ \E k \in 1..MaxRekey : DeriveResolved("A", k)
  \/ (rotated["A"] < MaxRotate /\ rotateKey("A"))
  \/ /\ ivCalls["A"] < MaxNonces
     /\ makeIVCall("A", FixedSsrc, FixedTimestamp, 0, FALSE)

SpecRekey == Init /\ [][NextRekey]_vars

----------------------------------------------------------------------------
(* Frame pipes *)

\* the setPassword calls of m with a non-empty password that have returned
pwDone(m) ==
  Cardinality({k \in 1..Len(pwCalls[m]) :
                 pwCalls[m][k].pc = "done" /\ pwCalls[m][k].password # ""})

\* what a finished encode call leaves in the log: the frame it was given, the
\* payloads it enqueued, and what the manager was like when it was called
EncodeRecord(m, frame, out, encrypted, iv) ==
  [frame |-> frame, out |-> out, encrypted |-> encrypted, iv |-> iv,
   key |-> currentCryptoKey(m), keyId |-> currentKeyId[m],
   ringBase |-> RingBase(m), pwDone |-> pwDone(m),
   filling |-> keyRing[m] # << >>, mixed |-> RingMixed(m),
   seq |-> Len(encLog[m]) + Len(encPipe[m]) + 1,
   rejected |-> FALSE, escaped |-> FALSE]

\* a transform stream that hands over the next frame while one is pending
PipeReadyConcurrent(pipe) == Len(pipe) < 2

\* new TransformStream({transform}) (worker.ts:16-18, 21-23): the stream calls
\* transform for the next frame when the promise of the previous call has
\* settled
PipeReady(pipe) == pipe = << >>

\* the sequence s without its k-th element
Without(s, k) == SubSeq(s, 1, k - 1) \o SubSeq(s, k + 1, Len(s))

\* an error handler that throws the error on
encodeCatchRethrow(thrown) == thrown

\* the catch block and the rejection callback of encodeFunction
\* (ee2e.ts:341-351) log the error: whether it leaves the function
encodeCatch(thrown) == FALSE

\* a decodeFunction without its try block
decodeCatchRethrow(thrown) == thrown

\* the catch block of decodeFunction (ee2e.ts:401-403) logs the error: whether
\* it leaves the function
decodeCatch(thrown) == FALSE

\* an encodeFunction that falls through to its last line after starting the
\* encryption
enqueuedOnReturnToo(frame) == << frame.data >>

\* what encodeFunction enqueues itself when it has started the encryption:
\* nothing, it returns the promise before its last line (ee2e.ts:309, 353)
enqueuedOnReturn(frame) == << >>

\* a payload with the nonce put before the ciphertext
EncodedDataNonceFirst(frameHeader, cipherText, iv, frameTrailer) ==
  frameHeader \o iv \o cipherText \o frameTrailer

\* a payload without the nonce
EncodedDataNoNonce(frameHeader, cipherText, iv, frameTrailer) ==
  frameHeader \o cipherText \o frameTrailer

\* the payload encodeFunction builds from the ciphertext (ee2e.ts:321-337)
EncodedData(frameHeader, cipherText, iv, frameTrailer) ==
  frameHeader \o cipherText \o iv \o frameTrailer

\* a frame trailer with its two bytes swapped
FrameTrailerSwapped(keyId) == << keyId, IV_LENGTH >>

\* the frame trailer (ee2e.ts:304-307)
FrameTrailer(keyId) == << IV_LENGTH, keyId >>

\* encodeFunction up to the call of crypto.subtle.encrypt, or to its end when
\* it does not encrypt (ee2e.ts:285-318, 348-353). The transform stream gives
\* the pipe its next frame when the promise of the previous one has settled.
encodeFunction(m, frame, seed) ==
  /\ PipeReady(encPipe[m])
  /\ ~pipeError[m].encode
  /\ IF currentCryptoKey(m) # Undefined /\ Len(frame.data) > 0
     THEN /\ makeIVEffect(m, frame.ssrc, frame.timestamp, seed, FALSE)
          /\ IF UNENCRYPTED_BYTES(frame.type) > Len(frame.data)
             THEN \* new Uint8Array(data, 0, length) throws a RangeError, which
                  \* the catch logs; the frame is enqueued as it came
                  /\ encLog' = [encLog EXCEPT ![m] = Append(@,
                        [EncodeRecord(m, frame,
                           IF encodeCatch(TRUE) THEN << >> ELSE << frame.data >>,
                           FALSE, << >>)
                         EXCEPT !.escaped = encodeCatch(TRUE)])]
                  /\ pipeError' = [pipeError EXCEPT ![m].encode = encodeCatch(TRUE)]
                  /\ UNCHANGED encPipe
             ELSE /\ encPipe' = [encPipe EXCEPT ![m] = Append(@,
                        [frame |-> frame,
                         iv |-> makeIV(m, frame.ssrc, frame.timestamp, seed),
                         frameHeader |-> Slice(frame.data, 0, UNENCRYPTED_BYTES(frame.type)),
                         frameTrailer |-> FrameTrailer(currentKeyId[m]),
                         key |-> currentCryptoKey(m),
                         record |-> EncodeRecord(m, frame, enqueuedOnReturn(frame), TRUE,
                                      makeIV(m, frame.ssrc, frame.timestamp, seed))])]
                  /\ UNCHANGED << encLog, pipeError >>
     ELSE /\ encLog' = [encLog EXCEPT ![m] = Append(@,
                EncodeRecord(m, frame, << frame.data >>, FALSE, << >>))]
          /\ UNCHANGED << encPipe, pipeError >>
          /\ UNCHANGED ivVars
  /\ UNCHANGED keyVars
  /\ UNCHANGED << decPipe, decLog >>
  /\ UNCHANGED outerVars

\* an encryption that takes the current key when it completes
encryptKeyAtCompletion(m, atCall) == currentCryptoKey(m)

\* the key crypto.subtle.encrypt works with: this.currentCryptoKey as it was
\* when encrypt was called (ee2e.ts:316)
encryptKey(m, atCall) == atCall

\* the fulfilment of crypto.subtle.encrypt (ee2e.ts:320-340)
EncryptResolved(m) ==
  \E k \in 1..Len(encPipe[m]) :
    /\ LET op == encPipe[m][k]
           hl == Len(op.frameHeader)
           cipherText == AeadEncrypt(encryptKey(m, op.key), op.iv, op.frameHeader,
                                     SubSeq(op.frame.data, hl + 1, Len(op.frame.data)))
           newData == EncodedData(op.frameHeader, cipherText, op.iv, op.frameTrailer)
       IN  encLog' = [encLog EXCEPT ![m] =
                        Append(@, [op.record EXCEPT !.out = Append(@, newData)])]
    /\ encPipe' = [encPipe EXCEPT ![m] = Without(@, k)]
    /\ UNCHANGED keyVars
    /\ UNCHANGED ivVars
    /\ UNCHANGED << decPipe, decLog, pipeError >>
    /\ UNCHANGED outerVars

\* a rejection callback that sends the frame on as it came
enqueuedOnRejectionCleartext(frame) == << frame.data >>

\* what the rejection callback enqueues: nothing ("We are not enqueuing the
\* frame here on purpose", ee2e.ts:341-346)
enqueuedOnRejection(frame) == << >>

\* the rejection of crypto.subtle.encrypt (ee2e.ts:341-346): the callback logs
\* the error
EncryptRejected(m) ==
  \E k \in 1..Len(encPipe[m]) :
    /\ encLog' = [encLog EXCEPT ![m] = Append(@,
          [encPipe[m][k].record EXCEPT
             !.out = @ \o enqueuedOnRejection(encPipe[m][k].frame),
             !.encrypted = FALSE, !.rejected = TRUE,
             !.escaped = encodeCatch(TRUE)])]
    /\ encPipe' = [encPipe EXCEPT ![m] = Without(@, k)]
    /\ pipeError' = [pipeError EXCEPT ![m].encode = encodeCatch(TRUE)]
    /\ UNCHANGED keyVars
    /\ UNCHANGED ivVars
    /\ UNCHANGED << decPipe, decLog >>
    /\ UNCHANGED outerVars

\* a frame given to a decode pipe: the frame, the encode call whose output it
\* is (NoSource for a frame no encoder produced), and whether it was changed
\* on the way
NoSource == [mgr |-> "none", idx |-> 0]

\* the encode call whose output a decode call was given
Source(d) == encLog[d.from.mgr][d.from.idx]

FromWire(d) == d.from.mgr # "none"

\* flipping the bit of weight w in byte b
FlipBit(b, w) == IF (b \div w) % 2 = 0 THEN b + w ELSE b - w

TamperBits == {1, 128}

\* the positions of the ciphertext and tag in an encoded payload
CipherRegion(type, data) ==
  (UNENCRYPTED_BYTES(type) + 1) .. (Len(data) - IV_LENGTH - 2)

\* the encode calls of the managers in senders that enqueued a frame
WireRefs(senders) ==
  UNION { { [mgr |-> s, idx |-> i] :
              i \in { j \in 1..Len(encLog[s]) : encLog[s][j].out # << >> } } :
          s \in senders }

\* the frame such a call put on the wire
WireFrame(ref) ==
  [encLog[ref.mgr][ref.idx].frame EXCEPT !.data = encLog[ref.mgr][ref.idx].out[1]]

\* what the decode pipes can be given: a frame off the wire as it was sent, an
\* encrypted frame off the wire with one bit of its ciphertext region flipped,
\* or a frame that no encoder has touched
DecodeInputs(senders) ==
  { [frame |-> WireFrame(r), from |-> r, tampered |-> FALSE] : r \in WireRefs(senders) }
  \cup
  UNION { { [frame |-> [WireFrame(r) EXCEPT !.data[p] = FlipBit(@, w)],
             from |-> r, tampered |-> TRUE] :
              p \in CipherRegion(WireFrame(r).type, WireFrame(r).data), w \in TamperBits } :
          r \in { q \in WireRefs(senders) : encLog[q.mgr][q.idx].encrypted } }
  \cup
  { [frame |-> f, from |-> NoSource, tampered |-> FALSE] : f \in Frames }

\* decodeFunction from its first line to the call of crypto.subtle.decrypt
\* (ee2e.ts:362-391): what it reads from the payload, and whether one of the
\* typed-array constructors or getKeyForId throws on the way
ParseFrame(m, frame) ==
  LET data == frame.data
      len == Len(data)
      hl == UNENCRYPTED_BYTES(frame.type)
      ivLength == data[len - 1]
      keyId == data[len]
      ivOffset == len - ivLength - 2
      cipherTextLength == len - (hl + ivLength + 2)
      Thrown == [throws |-> TRUE, keyId |-> 0, key |-> Undefined, iv |-> << >>,
                 frameHeader |-> << >>, cipherText |-> << >>]
  IN  IF hl > len THEN Thrown                         \* frameHeader: RangeError
      ELSE IF len < 2 THEN Thrown                     \* frameTrailer: RangeError
      ELSE IF ivOffset < 0 THEN Thrown                \* iv: RangeError
      ELSE IF getKeyForId(m, keyId) = Undefined THEN [Thrown EXCEPT !.keyId = keyId]
      ELSE IF cipherTextLength < 0 THEN [Thrown EXCEPT !.keyId = keyId]
      ELSE [throws |-> FALSE, keyId |-> keyId, key |-> getKeyForId(m, keyId),
            iv |-> Slice(data, ivOffset, ivLength),
            frameHeader |-> Slice(data, 0, hl),
            cipherText |-> Slice(data, hl, cipherTextLength)]

\* what a finished decode call leaves in the log
DecodeRecord(m, input, out, decrypted, keyId) ==
  [frame |-> input.frame, from |-> input.from, tampered |-> input.tampered,
   out |-> out, decrypted |-> decrypted, keyId |-> keyId,
   hadKey |-> currentCryptoKey(m) # Undefined, currentKeyId |-> currentKeyId[m],
   ringBase |-> RingBase(m), pwDone |-> pwDone(m),
   filling |-> keyRing[m] # << >>, mixed |-> RingMixed(m),
   seq |-> Len(decLog[m]) + Len(decPipe[m]) + 1,
   escaped |-> FALSE]

\* decodeFunction up to its await, or to its end when it does not decrypt
\* (ee2e.ts:356-392, 401-405)
decodeFunction(m, input) ==
  /\ PipeReady(decPipe[m])
  /\ ~pipeError[m].decode
  /\ IF currentCryptoKey(m) # Undefined /\ Len(input.frame.data) > 0
     THEN LET parsed == ParseFrame(m, input.frame)
          IN  IF parsed.throws
              THEN \* the catch logs the error; the frame is enqueued as it came
                   /\ decLog' = [decLog EXCEPT ![m] = Append(@,
                         [DecodeRecord(m, input,
                            IF decodeCatch(TRUE) THEN << >> ELSE << input.frame.data >>,
                            FALSE, parsed.keyId)
                          EXCEPT !.escaped = decodeCatch(TRUE)])]
                   /\ pipeError' = [pipeError EXCEPT ![m].decode = decodeCatch(TRUE)]
                   /\ UNCHANGED decPipe
              ELSE /\ decPipe' = [decPipe EXCEPT ![m] = Append(@,
                         [parsed |-> parsed,
                          record |-> DecodeRecord(m, input, << >>, FALSE, parsed.keyId)])]
                   /\ UNCHANGED << decLog, pipeError >>
     ELSE /\ decLog' = [decLog EXCEPT ![m] = Append(@,
                DecodeRecord(m, input, << input.frame.data >>, FALSE, 0))]
          /\ UNCHANGED << decPipe, pipeError >>
  /\ UNCHANGED keyVars
  /\ UNCHANGED ivVars
  /\ UNCHANGED << encPipe, encLog >>
  /\ UNCHANGED outerVars

\* decodeFunction from the settlement of crypto.subtle.decrypt to its end
\* (ee2e.ts:384-405): the payload is replaced when the decryption succeeded,
\* and the frame is enqueued in either case
DecryptSettled(m) ==
  \E k \in 1..Len(decPipe[m]) :
    /\ LET op == decPipe[m][k]
           result == AeadDecrypt(op.parsed.key, op.parsed.iv, op.parsed.frameHeader,
                                 op.parsed.cipherText)
           newData == op.parsed.frameHeader \o result.plain
       IN  /\ decLog' = [decLog EXCEPT ![m] = Append(@,
                  IF result.ok
                  THEN [op.record EXCEPT !.out = << newData >>, !.decrypted = TRUE]
                  ELSE [op.record EXCEPT
                          !.out = IF decodeCatch(TRUE) THEN << >>
                                  ELSE << op.record.frame.data >>,
                          !.escaped = decodeCatch(TRUE)])]
           /\ pipeError' = [pipeError EXCEPT
                  ![m].decode = IF result.ok THEN @ ELSE decodeCatch(TRUE)]
    /\ decPipe' = [decPipe EXCEPT ![m] = Without(@, k)]
    /\ UNCHANGED keyVars
    /\ UNCHANGED ivVars
    /\ UNCHANGED << encPipe, encLog >>
    /\ UNCHANGED outerVars

\* the frames the pipes have been given so far
Encoded == Len(encLog["A"]) + Len(encLog["B"]) + Len(encPipe["A"]) + Len(encPipe["B"])
Decoded == Len(decLog["A"]) + Len(decLog["B"]) + Len(decPipe["A"]) + Len(decPipe["B"])

----------------------------------------------------------------------------
(* One worker (worker.ts): its manager handles setPassword and rotateKey     *)
(* messages and transforms the frames of an encode and of a decode pipe, in  *)
(* any interleaving. The decode pipe is given the frames of the encode pipe  *)
(* and frames from elsewhere.                                                *)

Next ==
  \/ \E password \in Passwords :
       Len(pwCalls["A"]) < MaxSetPassword /\ setPassword("A", password)
  \/ \E k \in 1..MaxSetPassword : ImportResolved("A", k)
  \/ \E k \in 1..MaxSetPassword : DeriveResolved("A", k)
  \/ (rotated["A"] < MaxRotate /\ rotateKey("A"))
  \/ \E frame \in Frames : \E seed \in SeedsFor("A", frame.ssrc) :
       Encoded < MaxEncodes /\ encodeFunction("A", frame, seed)
  \/ EncryptResolved("A")
  \/ \E input \in DecodeInputs({"A"}) :
       Decoded < MaxDecodes /\ decodeFunction("A", input)
  \/ DecryptSettled("A")

Spec == Init /\ [][Next]_vars

----------------------------------------------------------------------------
(* Two workers: the sender's manager A encodes, the receiver's manager B     *)
(* decodes what A put on the wire (as sent, or with a bit flipped) and       *)
(* frames from elsewhere. Both are keyed first, one after the other, each    *)
(* with any password; then keys rotate and frames flow in any interleaving.  *)

Keying == \E m \in Managers : InFlight(m)

KeyingPhase ==
  /\ ~Keying
  /\ Encoded = 0 /\ Decoded = 0
  /\ \A m \in Managers : rotated[m] = 0

NextPeers ==
  \/ \E m \in Managers, password \in Passwords :
       KeyingPhase /\ Len(pwCalls[m]) < MaxSetPassword /\ setPassword(m, password)
  \/ \E m \in Managers, k \in 1..MaxSetPassword : ImportResolved(m, k)
  \/ \E m \in Managers, k \in 1..MaxSetPassword : DeriveResolved(m, k)
  \/ \E m \in Managers : ~Keying /\ rotated[m] < MaxRotate /\ rotateKey(m)
  \/ \E frame \in Frames : \E seed \in SeedsFor("A", frame.ssrc) :
       ~Keying /\ Encoded < MaxEncodes /\ encodeFunction("A", frame, seed)
  \/ EncryptResolved("A")
  \/ \E input \in DecodeInputs({"A"}) :
       ~Keying /\ Decoded < MaxDecodes /\ decodeFunction("B", input)
  \/ DecryptSettled("B")

SpecPeers == Init /\ [][NextPeers]_vars

----------------------------------------------------------------------------
(* Frame flow on one worker: the manager is keyed or not, then each of its   *)
(* two pipes is given MaxFlow frames while keys rotate; crypto.subtle.encrypt *)
(* may reject.                                                               *)

FlowFrames ==
  { ScenarioFrame,
    MkFrame("key", 12345, 1000, <<1, 2, 3, 4, 5>>),
    MkFrame("undefined", 777, 2000, <<42>>) }

\* the decode pipe is given what the encode pipe sent, as sent or with the
\* first bit of the ciphertext flipped, or a frame from elsewhere
FlowInputs ==
  { d \in DecodeInputs({"A"}) :
      /\ d.tampered =>
            d.frame.data = [WireFrame(d.from).data EXCEPT
                              ![UNENCRYPTED_BYTES(d.frame.type) + 1] = FlipBit(@, 1)]
      /\ ~FromWire(d) => d.frame \in FlowFrames }

NextFlow ==
  \/ (KeyingPhase /\ Len(pwCalls["A"]) < MaxSetPassword
        /\ setPassword("A", "test-pass"))
  \/ \E k \in 1..MaxSetPassword : ImportResolved("A", k)
  \/ \E k \in 1..MaxSetPassword : DeriveResolved("A", k)
  \/ (~Keying /\ rotated["A"] < MaxRotate /\ rotateKey("A"))
  \/ \E frame \in FlowFrames :
       /\ ~Keying
       /\ Len(encLog["A"]) + Len(encPipe["A"]) < MaxFlow
       /\ encodeFunction("A", frame, 0)
  \/ EncryptResolved("A")
  \/ EncryptRejected("A")
  \/ \E input \in FlowInputs :
       /\ ~Keying
       /\ Len(decLog["A"]) + Len(decPipe["A"]) < MaxFlow
       /\ decodeFunction("A", input)
  \/ DecryptSettled("A")

SpecFlow == Init /\ [][NextFlow]_vars

----------------------------------------------------------------------------
(* Re-keying while frames flow on one worker: a first secret, then a second  *)
(* one, each setPassword message handled when the one before has finished,   *)
(* while keys rotate and the pipes are given frames.                         *)

\* the secret of the n-th setPassword message
SecretOf(n) == IF n = 1 THEN "test-pass" ELSE "other-pass"

\* the decode pipe is given what the encode pipe sent, as it was sent
RekeyInputs == { d \in DecodeInputs({"A"}) : FromWire(d) /\ ~d.tampered }

NextRekeyFlow ==
  \/ /\ ~InFlight("A")
     /\ Len(pwCalls["A"]) < MaxSecrets
     /\ setPassword("A", SecretOf(Len(pwCalls["A"]) + 1))
  \/ \E k \in 1..MaxSecrets : ImportResolved("A", k)
  \/ \E k \in 1..MaxSecrets : DeriveResolved("A", k)
  \/ (rotated["A"] < MaxRotate /\ rotateKey("A"))
  \/ /\ Encoded < MaxEncodes
     /\ encodeFunction("A", ScenarioFrame, 0)
  \/ EncryptResolved("A")
  \/ \E input \in RekeyInputs :
       Decoded < MaxDecodes /\ decodeFunction("A", input)
  \/ DecryptSettled("A")

SpecRekeyFlow == Init /\ [][NextRekeyFlow]_vars

----------------------------------------------------------------------------
(* Send counters on one worker: makeIV calls for two SSRCs while the manager *)
(* is keyed and re-keyed, keys rotate and the decode pipe is given a frame.  *)

\* the SSRCs of the send counter runs
Ssrcs == {FixedSsrc, 777}

\* the decode pipe is given a frame no encoder has touched, whose last two
\* bytes read as a trailer with an empty nonce and key index 0
CounterInputs ==
  { [frame |-> MkFrame("delta", FixedSsrc, FixedTimestamp, <<9, 8, 7, 0, 0>>),
     from |-> NoSource, tampered |-> FALSE] }

NextCounters ==
  \/ /\ ~InFlight("A")
     /\ Len(pwCalls["A"]) < MaxSecrets
     /\ setPassword("A", SecretOf(Len(pwCalls["A"]) + 1))
  \/ \E k \in 1..MaxSecrets : ImportResolved("A", k)
  \/ \E k \in 1..MaxSecrets : DeriveResolved("A", k)
  \/ (rotated["A"] < MaxRotate /\ rotateKey("A"))
  \/ \E ssrc \in Ssrcs :
       /\ ivCalls["A"] < MaxCounts
       /\ makeIVCall("A", ssrc, FixedTimestamp, 0, FALSE)
  \/ \E input \in CounterInputs :
       Decoded < MaxDecodes /\ decodeFunction("A", input)
  \/ DecryptSettled("A")

SpecCounters == Init /\ [][NextCounters]_vars

----------------------------------------------------------------------------
(* Progress on one worker: a setPassword message, a frame for each pipe, in  *)
(* any interleaving; every crypto operation that was started is settled,     *)
(* fulfilled or rejected, in the end.                                        *)

ImportSettled ==
  \E k \in 1..MaxSetPassword : ImportResolved("A", k) \/ ImportRejected("A", k)

DeriveSettled ==
  \E k \in 1..MaxSetPassword : DeriveResolved("A", k) \/ DeriveRejected("A", k)

EncryptSettled == EncryptResolved("A") \/ EncryptRejected("A")

NextProgress ==
  \/ (~InFlight("A") /\ Len(pwCalls["A"]) < MaxSetPassword
        /\ setPassword("A", "test-pass"))
  \/ \E k \in 1..MaxSetPassword : ImportResolved("A", k)
  \/ \E k \in 1..MaxSetPassword : ImportRejected("A", k)
  \/ \E k \in 1..MaxSetPassword : DeriveResolved("A", k)
  \/ \E k \in 1..MaxSetPassword : DeriveRejected("A", k)
  \/ \E frame \in FlowFrames :
       Encoded < MaxEncodes /\ encodeFunction("A", frame, 0)
  \/ EncryptResolved("A")
  \/ EncryptRejected("A")
  \/ \E input \in FlowInputs :
       Decoded < MaxDecodes /\ decodeFunction("A", input)
  \/ DecryptSettled("A")

SpecProgress ==
  /\ Init /\ [][NextProgress]_vars
  /\ WF_vars(ImportSettled)
  /\ WF_vars(DeriveSettled)
  /\ WF_vars(EncryptSettled)
  /\ WF_vars(DecryptSettled("A"))

----------------------------------------------------------------------------
(* Overlapping setPassword messages on one worker: onmessage awaits          *)
(* manager.setPassword, but the next message is handled while that await is  *)
(* pending, so the second call starts before the first has imported its key  *)
(* material. The pending derivations of the two calls resolve in any order.  *)

\* every setPassword call so far is still waiting for its key material
AllImporting ==
  \A k \in 1..Len(pwCalls["A"]) : pwCalls["A"][k].pc = "import"

\* no prefill is further than MaxLead derivations
WithinLead ==
  \A k \in 1..Len(pwCalls["A"]) : pwCalls["A"][k].i <= MaxLead

NextOverlap ==
  \/ /\ AllImporting
     /\ Len(pwCalls["A"]) < MaxSecrets
     /\ setPassword("A", SecretOf(Len(pwCalls["A"]) + 1))
  \/ \E k \in 1..MaxSecrets : (WithinLead /\ ImportResolved("A", k))
  \/ \E k \in 1..MaxSecrets : DeriveResolved("A", k)

SpecOverlap == Init /\ [][NextOverlap]_vars

----------------------------------------------------------------------------
(* The registry worker: one cryptor per participant and a shared one. The    *)
(* class Cryptor is imported from a file that is not part of the sources: an *)
(* instance is the record of its constructor option and of the setKey calls  *)
(* made on it.                                                               *)

\* payload.participantId: "" stands for an id that is absent (or empty), the
\* values for which !id holds
ParticipantIds == {"", "alice", "bob"}

Operations == {"encode", "decode"}

KeyMaterials == {1, 2}

KeyIndexes == {0, 1}

\* new Cryptor() / new Cryptor({ sharedKey })
NewCryptor(sharedKey) == [sharedKey |-> sharedKey, keys |-> << >>]

\* getParticipantCryptor (part_001:62-72): the cryptor it returns (Undefined
\* for sharedCryptor! when there is no shared cryptor), the Map and the shared
\* cryptor it leaves, and the instance it created
getParticipantCryptor(id) ==
  IF id = ""
  THEN [cryptor |-> sharedCryptor, map |-> participantCryptors,
        shared |-> sharedCryptor, created |-> << >>]
  ELSE IF id \in DOMAIN participantCryptors
  THEN [cryptor |-> participantCryptors[id], map |-> participantCryptors,
        shared |-> sharedCryptor, created |-> << >>]
  ELSE [cryptor |-> Len(cryptors) + 1,
        map |-> (id :> (Len(cryptors) + 1)) @@ participantCryptors,
        shared |-> sharedCryptor, created |-> << NewCryptor(FALSE) >>]

\* the setKey calls made on all cryptors so far
KeysSet ==
  LET RECURSIVE Sum(_)
      Sum(n) == IF n = 0 THEN 0 ELSE Len(cryptors[n].keys) + Sum(n - 1)
  IN  Sum(Len(cryptors))

\* the messages that had an effect so far
Handled == Len(cryptors) + Len(boundPipes) + Len(workerErrors) + KeysSet

\* case 'init' with sharedKey (part_001:26-28): sharedCryptor becomes the
\* instance just created
initSharedCryptor(created) == created

\* onmessage, case 'init' (part_001:24-29)
onmessageInit(sharedKey) ==
  /\ IF sharedKey
     THEN /\ cryptors' = Append(cryptors, NewCryptor(sharedKey))
          /\ sharedCryptor' = initSharedCryptor(Len(cryptors) + 1)
     ELSE UNCHANGED << cryptors, sharedCryptor >>
  /\ UNCHANGED << participantCryptors, boundPipes, workerErrors >>
  /\ UNCHANGED managerVars
  /\ UNCHANGED kpVars

\* onmessage, cases 'decode' and 'encode' (part_001:30-35, 44-60): reading
\* cipher.encodeFunction of an undefined cipher throws a TypeError
onmessageTransform(kind, participantId) ==
  LET got == getParticipantCryptor(participantId)
  IN  /\ participantCryptors' = got.map
      /\ sharedCryptor' = got.shared
      /\ cryptors' = cryptors \o got.created
      /\ IF got.cryptor = Undefined
         THEN /\ workerErrors' = Append(workerErrors,
                    [kind |-> kind, participantId |-> participantId])
              /\ UNCHANGED boundPipes
         ELSE /\ boundPipes' = Append(boundPipes,
                    [kind |-> kind, participantId |-> participantId,
                     cryptor |-> got.cryptor])
              /\ UNCHANGED workerErrors
      /\ UNCHANGED managerVars
      /\ UNCHANGED kpVars

\* onmessage, case 'setKey' (part_001:36-38): calling setKey of an undefined
\* cryptor throws a TypeError
onmessageSetKey(participantId, key, keyIndex) ==
  LET got == getParticipantCryptor(participantId)
      all == cryptors \o got.created
  IN  /\ participantCryptors' = got.map
      /\ sharedCryptor' = got.shared
      /\ IF got.cryptor = Undefined
         THEN /\ workerErrors' = Append(workerErrors,
                    [kind |-> "setKey", participantId |-> participantId])
              /\ cryptors' = all
         ELSE /\ cryptors' = [all EXCEPT ![got.cryptor].keys =
                    Append(@, [key |-> key, keyIndex |-> keyIndex,
                               participantId |-> participantId,
                               pipes |-> Len(boundPipes)])]
              /\ UNCHANGED workerErrors
      /\ UNCHANGED boundPipes
      /\ UNCHANGED managerVars
      /\ UNCHANGED kpVars

NextRegistry ==
  \/ \E sharedKey \in BOOLEAN :
       Handled < MaxMessages /\ onmessageInit(sharedKey)
  \/ \E kind \in Operations, participantId \in ParticipantIds :
       Handled < MaxMessages /\ onmessageTransform(kind, participantId)
  \/ \E participantId \in ParticipantIds, key \in KeyMaterials, keyIndex \in KeyIndexes :
       Handled < MaxMessages /\ onmessageSetKey(participantId, key, keyIndex)

SpecRegistry == Init /\ [][NextRegistry]_vars

----------------------------------------------------------------------------
(* The key provider (KeyProvider.ts). An optional argument is the empty     *)
(* sequence when it is left out and a sequence of one value otherwise. The  *)
(* 'setKey' events the provider emits are kept in keySets, in order.        *)

\* participantId arguments: left out, a participant, and a participant whose
\* identity is the word the template of the map key uses for no participant
OptionalIds == {<< >>, << "alice" >>, << "shared" >>}

\* keyIndex arguments
OptionalIndexes == {<< >>, << 0 >>, << 1 >>}

\* the passphrases given to setKey
Passphrases == {"first", "second"}

\* createKeyMaterialFromString: the key material of a passphrase, apart from
\* the keys handed to onSetEncryptionKey directly
createKeyMaterialFromString(key) ==
  CASE key = "first" -> 11
    [] key = "second" -> 12

\* value ?? fallback
OrElse(optional, fallback) == IF optional = << >> THEN fallback ELSE optional[1]

\* the template string of the map key (KeyProvider.ts:27)
mapKey(participantId, keyIndex) ==
  OrElse(participantId, "shared") \o "-" \o ToString(OrElse(keyIndex, 0))

\* Map.prototype.set: the value of an existing key is replaced where it is,
\* a new key goes to the end
MapSet(map, k, v) ==
  IF \E i \in 1..Len(map) : map[i].mapKey = k
  THEN [i \in 1..Len(map) |->
          IF map[i].mapKey = k THEN [mapKey |-> k, info |-> v] ELSE map[i]]
  ELSE Append(map, [mapKey |-> k, info |-> v])

\* Map.prototype.values, in the order of the Map
MapValues(map) == [i \in 1..Len(map) |-> map[i].info]

\* Array.from: a new array with the values the iterable has now
ArrayFrom(values) == [live |-> FALSE, items |-> values]

\* what an array returned by getKeys holds now
ArrayItems(array) ==
  IF array.live THEN MapValues(keyInfoMap) ELSE array.items

\* the body of onSetEncryptionKey (KeyProvider.ts:25-29)
onSetEncryptionKeyBody(key, participantId, keyIndex) ==
  LET keyInfo == [key |-> key, participantId |-> participantId,
                  keyIndex |-> keyIndex]
  IN  /\ keyInfoMap' = MapSet(keyInfoMap, mapKey(participantId, keyIndex), keyInfo)
      /\ keySets' = Append(keySets, keyInfo)

\* onSetEncryptionKey called by a provider (KeyProvider.ts:25-29)
onSetEncryptionKey(key, participantId, keyIndex) ==
  /\ onSetEncryptionKeyBody(key, participantId, keyIndex)
  /\ UNCHANGED << pendingSetKey, heldKeys >>
  /\ UNCHANGED managerVars
  /\ UNCHANGED regVars

\* ExternalE2EEKeyProvider.setKey up to its await (KeyProvider.ts:70-71)
setKey(key) ==
  /\ pendingSetKey' = Append(pendingSetKey, key)
  /\ UNCHANGED << keyInfoMap, heldKeys, keySets >>
  /\ UNCHANGED managerVars
  /\ UNCHANGED regVars

\* setKey from the resolution of createKeyMaterialFromString to its end
\* (KeyProvider.ts:71-72); pending calls resolve in any order
setKeyResolved(k) ==
  /\ k \in 1..Len(pendingSetKey)
  /\ onSetEncryptionKeyBody(createKeyMaterialFromString(pendingSetKey[k]),
                            << >>, << >>)
  /\ pendingSetKey' = Without(pendingSetKey, k)
  /\ UNCHANGED heldKeys
  /\ UNCHANGED managerVars
  /\ UNCHANGED regVars

\* getKeys (KeyProvider.ts:42-44); the caller keeps the array, with the
\* number of 'setKey' events emitted before the call
getKeys ==
  /\ heldKeys' = [held |-> TRUE,
                  array |-> ArrayFrom(MapValues(keyInfoMap)),
                  returned |-> MapValues(keyInfoMap),
                  sets |-> Len(keySets)]
  /\ UNCHANGED << keyInfoMap, pendingSetKey, keySets >>
  /\ UNCHANGED managerVars
  /\ UNCHANGED regVars

\* key-set operations begun so far
KeysHandled == Len(keySets) + Len(pendingSetKey)

NextKeys ==
  \/ \E key \in KeyMaterials, participantId \in OptionalIds,
        keyIndex \in OptionalIndexes :
       /\ KeysHandled < MaxKeySets
       /\ onSetEncryptionKey(key, participantId, keyIndex)
  \/ \E key \in Passphrases : (KeysHandled < MaxKeySets /\ setKey(key))
  \/ \E k \in 1..MaxKeySets : setKeyResolved(k)
  \/ getKeys

SpecKeys == Init /\ [][NextKeys]_vars

----------------------------------------------------------------------------
(* Properties *)

\* C5, as claimed: for a fixed SSRC and a fixed timestamp no makeIV call
\* returns the nonce an earlier call of the same manager returned, however
\* many calls lie between the two.
NonceNeverRepeats ==
  \A m \in Managers :
    (markAt[m] # 0 /\ ivCalls[m] > markAt[m]) => lastIV[m] # markIV[m]

\* C5, what makeIV does guarantee: for a fixed SSRC and a fixed timestamp, two
\* makeIV calls fewer than 65535 calls apart return different nonces (the
\* counter field is the stored count modulo 65535, so the call 65535 calls
\* later repeats it).
NonceDistinctWithinModulus ==
  \A m \in Managers :
    (markAt[m] # 0 /\ ivCalls[m] > markAt[m]
       /\ ivCalls[m] - markAt[m] < SEND_COUNT_MODULUS)
      => lastIV[m] # markIV[m]

\* C5 witness: a call 65534 calls after the remembered one has returned
NonceDistinctWithinModulusWitness ==
  /\ markAt["A"] = 1
  /\ ivCalls["A"] - markAt["A"] = SEND_COUNT_MODULUS - 1
  /\ SubSeq(lastIV["A"], 1, 8) = SubSeq(markIV["A"], 1, 8)

\* C6: for a fixed SSRC, any timestamps and any seed, the nonces of 1000
\* consecutive makeIV calls are 12 bytes each and pairwise distinct: a call
\* fewer than 1000 calls after another never returns the same nonce.
NonceWindowDistinct ==
  \A m \in Managers :
    /\ ivCalls[m] > 0 => Len(lastIV[m]) = 12
    /\ (markAt[m] # 0 /\ ivCalls[m] > markAt[m] /\ ivCalls[m] - markAt[m] < 1000)
         => lastIV[m] # markIV[m]

\* C6 witness: the 1000th call has returned, the first one is remembered and
\* both had the same timestamp
NonceWindowDistinctWitness ==
  /\ markAt["A"] = 1
  /\ ivCalls["A"] = 1000
  /\ SubSeq(lastIV["A"], 1, 8) = SubSeq(markIV["A"], 1, 8)

\* C7: on a ring prefilled from base by a completed setPassword, the n-th
\* rotateKey call since currentKeyId was 0 leaves currentKeyId = n mod 256, so
\* 256 calls visit 1, 2, ..., 255, 0 and end at 0, and at every index the
\* current key is deriveKeyForSlot(base, index).
KeyIndexWraparound ==
  \A m \in Managers :
    (Len(pwCalls[m]) = 1 /\ pwCalls[m][1].pc = "done" /\ pwCalls[m][1].password # "")
      => /\ currentKeyId[m] = rotated[m] % 256
         /\ rotated[m] = 256 => currentKeyId[m] = 0
         /\ currentCryptoKey(m) =
              deriveKey(generatePresharedKey(pwCalls[m][1].password), currentKeyId[m])

\* C7 witness: the 256th rotateKey call has brought the index back to 0
KeyIndexWraparoundWitness ==
  /\ rotated["A"] = 256
  /\ currentKeyId["A"] = 0
  /\ pwCalls["A"][1].pc = "done"

\* C1: when the encoder's and the decoder's key rings are both fully
\* prefilled from the same password, a frame with a non-empty payload of any
\* kind that went through encodeFunction and, unchanged, through
\* decodeFunction is forwarded once with its original payload.
RoundTrip ==
  \A m \in Managers : \A i \in 1..Len(decLog[m]) :
    LET d == decLog[m][i]
    IN  (FromWire(d) /\ ~d.tampered
           /\ Len(Source(d).frame.data) > 0
           /\ Source(d).ringBase # Undefined
           /\ d.ringBase = Source(d).ringBase)
          => d.out = << Source(d).frame.data >>

\* C1 witness: a key frame was encrypted and decrypted back
RoundTripWitness ==
  \E i \in 1..Len(decLog["B"]) :
    LET d == decLog["B"][i]
    IN  /\ FromWire(d) /\ ~d.tampered /\ d.decrypted
        /\ Source(d).encrypted
        /\ Source(d).frame.type = "key"
        /\ Source(d).ringBase # Undefined /\ d.ringBase = Source(d).ringBase
        /\ d.out = << Source(d).frame.data >>
        /\ d.frame.data # Source(d).frame.data

\* C2: decodeFunction takes the key of the trailer's keyIndex byte, which is
\* the encoder's currentKeyId when it encoded, whatever the decoder's own
\* currentKeyId is: with both rings prefilled from the same password every
\* frame the encoder encrypted is decrypted to its original payload after any
\* rotateKey calls on either side.
DecodeSurvivesRotation ==
  \A m \in Managers : \A i \in 1..Len(decLog[m]) :
    LET d == decLog[m][i]
    IN  (FromWire(d) /\ ~d.tampered
           /\ Source(d).encrypted
           /\ Source(d).ringBase # Undefined
           /\ d.ringBase = Source(d).ringBase)
          => /\ d.keyId = Source(d).keyId
             /\ d.decrypted
             /\ d.out = << Source(d).frame.data >>

\* C2 witness: both sides have rotated, the decoder's current index differs
\* from the one in the trailer, and the frame was decrypted
DecodeSurvivesRotationWitness ==
  \E i \in 1..Len(decLog["B"]) :
    LET d == decLog["B"][i]
    IN  /\ FromWire(d) /\ d.decrypted
        /\ Source(d).keyId > 0
        /\ d.currentKeyId > 0
        /\ d.currentKeyId # Source(d).keyId

\* C3, as claimed: when a key is active and decodeFunction fails on a frame
\* (a flipped ciphertext bit, a frame encrypted under another key, a payload
\* too short), it enqueues nothing for that frame.
DecodeFailureDrops ==
  \A m \in Managers : \A i \in 1..Len(decLog[m]) :
    LET d == decLog[m][i]
    IN  (d.hadKey /\ Len(d.frame.data) > 0 /\ ~d.decrypted) => d.out = << >>

\* C4: as long as no setPassword call has completed, encodeFunction and
\* decodeFunction forward every frame they are given exactly once, payload
\* unchanged, and start no crypto operation.
FailOpenWithoutKey ==
  \A m \in Managers :
    /\ \A i \in 1..Len(encLog[m]) :
         encLog[m][i].pwDone = 0 => encLog[m][i].out = << encLog[m][i].frame.data >>
    /\ \A i \in 1..Len(decLog[m]) :
         decLog[m][i].pwDone = 0 => decLog[m][i].out = << decLog[m][i].frame.data >>
    /\ \A i \in 1..Len(encPipe[m]) : encPipe[m][i].record.pwDone > 0
    /\ \A i \in 1..Len(decPipe[m]) : decPipe[m][i].record.pwDone > 0

\* C4 witness: while the first prefill was under way, a non-empty frame went
\* through encodeFunction and then through decodeFunction
FailOpenWithoutKeyWitness ==
  /\ Len(encLog["A"]) = 1 /\ Len(decLog["A"]) = 1
  /\ encLog["A"][1].pwDone = 0 /\ encLog["A"][1].filling
  /\ Len(encLog["A"][1].frame.data) > 0
  /\ decLog["A"][1].pwDone = 0 /\ decLog["A"][1].filling
  /\ FromWire(decLog["A"][1])

\* C8: whenever encodeFunction encrypts a frame it forwards, once, the
\* payload header || ciphertext+tag || nonce || trailer: the header is the
\* first 10 (key), 3 (delta) or 1 (undefined) bytes of the input, the nonce is
\* the 12 bytes makeIV returned for the frame, the trailer is
\* [12, currentKeyId at the time of the call].
EncodedLayout ==
  \A m \in Managers : \A i \in 1..Len(encLog[m]) :
    LET e == encLog[m][i]
        data == e.frame.data
        out == e.out[1]
        n == Len(out)
        hl == CASE e.frame.type = "key" -> 10
                [] e.frame.type = "delta" -> 3
                [] e.frame.type = "undefined" -> 1
    IN  e.encrypted =>
          /\ Len(e.out) = 1
          /\ n = hl + (Len(data) - hl + 16) + 12 + 2
          /\ SubSeq(out, 1, hl) = SubSeq(data, 1, hl)
          /\ SubSeq(out, hl + 1, n - 14) =
               AeadEncrypt(e.key, e.iv, SubSeq(data, 1, hl), SubSeq(data, hl + 1, Len(data)))
          /\ SubSeq(out, n - 13, n - 2) = e.iv
          /\ e.iv = BE32(e.frame.ssrc) \o BE32(e.frame.timestamp) \o SubSeq(e.iv, 9, 12)
          /\ out[n - 1] = 12
          /\ out[n] = e.keyId

\* C8 witness: a delta frame was encrypted after a rotation, and the index
\* moved on before the encryption completed
EncodedLayoutWitness ==
  \E i \in 1..Len(encLog["A"]) :
    /\ encLog["A"][i].encrypted
    /\ encLog["A"][i].frame.type = "delta"
    /\ encLog["A"][i].keyId = 1
    /\ currentKeyId["A"] = 2

\* C9, as claimed: after setPassword("test-pass") has completed, encoding
\* the key frame with a payload of 20 bytes forwards one payload of
\* 10 + 20 + 16 + 12 + 2 = 60 bytes.
ScenarioLength ==
  \A m \in Managers : \A i \in 1..Len(encLog[m]) :
    (encLog[m][i].frame = ScenarioFrame /\ encLog[m][i].pwDone > 0)
      => /\ Len(encLog[m][i].out) = 1
         /\ Len(encLog[m][i].out[1]) = 60

\* C9, amended: the 10 header bytes are the first 10 of the 20 payload bytes,
\* so the forwarded payload has 10 (header) + 10 (ciphertext) + 16 (tag) +
\* 12 (nonce) + 2 (trailer) = 50 bytes.
ScenarioLengthHeaderInPayload ==
  \A m \in Managers : \A i \in 1..Len(encLog[m]) :
    (encLog[m][i].frame = ScenarioFrame /\ encLog[m][i].pwDone > 0)
      => /\ Len(encLog[m][i].out) = 1
         /\ Len(encLog[m][i].out[1]) = 50

\* C9 witness: the scenario's frame was encoded after setPassword("test-pass")
ScenarioLengthWitness ==
  /\ Len(pwCalls["A"]) = 1
  /\ pwCalls["A"][1].password = "test-pass" /\ pwCalls["A"][1].pc = "done"
  /\ Len(encLog["A"]) = 1
  /\ encLog["A"][1].frame = ScenarioFrame
  /\ encLog["A"][1].pwDone = 1
  /\ encLog["A"][1].encrypted

\* C10: a frame encrypted by a manager whose ring is prefilled from one
\* password, decoded by a manager whose ring is prefilled from another, fails
\* authentication: the decoder replaces no payload by a decrypted one and
\* forwards nothing equal to the original payload.
ParticipantIsolation ==
  \A m \in Managers : \A i \in 1..Len(decLog[m]) :
    LET d == decLog[m][i]
    IN  (FromWire(d) /\ Source(d).encrypted
           /\ Source(d).ringBase # Undefined /\ d.ringBase # Undefined
           /\ d.ringBase # Source(d).ringBase)
          => /\ ~d.decrypted
             /\ \A j \in 1..Len(d.out) : d.out[j] # Source(d).frame.data

\* C10 witness: B, keyed with another password than A, has decoded a frame
\* that A encrypted
ParticipantIsolationWitness ==
  \E i \in 1..Len(decLog["B"]) :
    LET d == decLog["B"][i]
    IN  /\ FromWire(d) /\ ~d.tampered /\ Source(d).encrypted
        /\ Source(d).ringBase = 1 /\ d.ringBase = 2

\* C11: each call of encodeFunction or decodeFunction enqueues its frame at
\* most once, counting what the call enqueues itself and what the completion
\* of its crypto operation enqueues, in every interleaving with setPassword
\* and rotateKey; a call whose crypto operation is pending has enqueued
\* nothing yet.
EnqueuedAtMostOnce ==
  \A m \in Managers :
    /\ \A i \in 1..Len(encLog[m]) : Len(encLog[m][i].out) <= 1
    /\ \A i \in 1..Len(decLog[m]) : Len(decLog[m][i].out) <= 1
    /\ \A i \in 1..Len(encPipe[m]) : encPipe[m][i].record.out = << >>
    /\ \A i \in 1..Len(decPipe[m]) : decPipe[m][i].record.out = << >>

\* C11 witness: an encryption and a decryption have completed, each call
\* having enqueued one frame, with a rotateKey call in between
EnqueuedAtMostOnceWitness ==
  /\ Len(encLog["A"]) = 1 /\ Len(decLog["A"]) = 1
  /\ encLog["A"][1].encrypted /\ Len(encLog["A"][1].out) = 1
  /\ decLog["A"][1].decrypted /\ Len(decLog["A"][1].out) = 1
  /\ decLog["A"][1].currentKeyId # encLog["A"][1].keyId

\* the finished calls of a pipe that forwarded a frame keep, SSRC by SSRC, the
\* order in which the pipe was given the frames
InArrivalOrder(log) ==
  \A i \in 1..Len(log) : \A j \in (i + 1)..Len(log) :
    (log[i].out # << >> /\ log[j].out # << >> /\ log[i].frame.ssrc = log[j].frame.ssrc)
      => log[i].seq < log[j].seq

\* C12: for every SSRC, the frames the encode pipe (resp. the decode pipe)
\* forwards appear in the order in which the pipe received them, although the
\* crypto operation of each frame completes asynchronously and the other pipe
\* of the same manager is at work.
PerStreamOrder ==
  \A m \in Managers : InArrivalOrder(encLog[m]) /\ InArrivalOrder(decLog[m])

\* C12 witness: two frames of one SSRC were encrypted and forwarded, and the
\* decode pipe decrypted the first while the second was being encrypted
PerStreamOrderWitness ==
  /\ Len(encLog["A"]) = 2
  /\ encLog["A"][1].encrypted /\ encLog["A"][2].encrypted
  /\ encLog["A"][1].frame.ssrc = encLog["A"][2].frame.ssrc
  /\ encLog["A"][1].out # << >> /\ encLog["A"][2].out # << >>
  /\ Len(decLog["A"]) = 2
  /\ decLog["A"][1].decrypted /\ decLog["A"][2].decrypted
  /\ decLog["A"][1].frame.ssrc = decLog["A"][2].frame.ssrc

\* C13, as claimed: when a key is active and the encryption of a frame fails,
\* encodeFunction forwards the frame exactly once, payload unmodified and
\* unencrypted.
EncodeFailureForwards ==
  \A m \in Managers : \A i \in 1..Len(encLog[m]) :
    encLog[m][i].rejected => encLog[m][i].out = << encLog[m][i].frame.data >>

\* C13, amended: when a key is active and crypto.subtle.encrypt rejects,
\* encodeFunction logs the error and enqueues nothing (the frame is dropped,
\* no error leaves the function); an error thrown before the encryption
\* starts is logged and the frame is forwarded once, unmodified and
\* unencrypted.
EncodeFailureDrops ==
  \A m \in Managers : \A i \in 1..Len(encLog[m]) :
    LET e == encLog[m][i]
    IN  /\ e.rejected => (e.out = << >> /\ ~e.escaped /\ e.key # Undefined)
        /\ (e.key # Undefined /\ Len(e.frame.data) > 0 /\ ~e.rejected /\ ~e.encrypted)
             => (e.out = << e.frame.data >> /\ ~e.escaped)

\* C13 witness: with a key active, the encryption of one frame was rejected and
\* another frame was too short for its header
EncodeFailureDropsWitness ==
  /\ Len(encLog["A"]) = 2
  /\ encLog["A"][1].rejected /\ encLog["A"][1].key # Undefined
  /\ ~encLog["A"][2].rejected /\ ~encLog["A"][2].encrypted
  /\ encLog["A"][2].key # Undefined

\* C20: no failure inside encodeFunction or decodeFunction (a rejected
\* encryption, a failed decryption, a missing key for the trailer's index, a
\* payload shorter than the header) throws or rejects into the transform pipe,
\* so the pipe stays open for the frames that follow.
ErrorsNeverEscape ==
  \A m \in Managers :
    /\ ~pipeError[m].encode /\ ~pipeError[m].decode
    /\ \A i \in 1..Len(encLog[m]) : ~encLog[m][i].escaped
    /\ \A i \in 1..Len(decLog[m]) : ~decLog[m][i].escaped

\* C20 witness: on each pipe a frame failed with a key active and the next
\* frame was processed, encrypted resp. decrypted
ErrorsNeverEscapeWitness ==
  /\ Len(encLog["A"]) = 2 /\ Len(decLog["A"]) = 2
  /\ encLog["A"][1].key # Undefined /\ ~encLog["A"][1].encrypted
  /\ encLog["A"][2].encrypted
  /\ decLog["A"][1].hadKey /\ ~decLog["A"][1].decrypted
  /\ Len(decLog["A"][1].frame.data) > 0
  /\ decLog["A"][2].decrypted

\* C14, as claimed: a message without participantId always resolves to the
\* shared cryptor, created if there is none yet: no setKey, encode or decode
\* message fails for want of a cryptor, whether or not an init message came
\* before, and every pipe of the shared scope is bound to a cryptor.
SharedScopeResolves ==
  /\ workerErrors = << >>
  /\ \A i \in 1..Len(boundPipes) :
       boundPipes[i].participantId = "" => boundPipes[i].cryptor \in 1..Len(cryptors)

\* the cryptor a scope resolves to now
Resolved(participantId) ==
  IF participantId = "" THEN sharedCryptor
  ELSE IF participantId \in DOMAIN participantCryptors
  THEN participantCryptors[participantId] ELSE Undefined

\* C15, as claimed: all resolutions of one scope return the same cryptor
\* instance and no entry is removed or replaced: the cryptor every pipe was
\* bound to is the one its scope resolves to now, and every key set on a scope
\* after a pipe was bound to it is among the keys of that pipe's cryptor.
SameCryptorPerScope ==
  \A i \in 1..Len(boundPipes) :
    /\ Resolved(boundPipes[i].participantId) = boundPipes[i].cryptor
    /\ \A c \in 1..Len(cryptors) : \A k \in 1..Len(cryptors[c].keys) :
         (cryptors[c].keys[k].participantId = boundPipes[i].participantId
            /\ cryptors[c].keys[k].pipes >= i)
           => c = boundPipes[i].cryptor

\* the latest setPassword call of m with a non-empty password
LatestSecret(m, k) ==
  /\ pwCalls[m][k].password # ""
  /\ \A j \in (k + 1)..Len(pwCalls[m]) : pwCalls[m][j].password = ""

\* C16: once a setPassword call with a non-empty secret that no other such
\* call overlapped has run to completion, every one of the 256 slots j holds
\* the key derived from the base key of that secret with salt byte j, and
\* currentKeyId is the number of rotations since the call reset it to 0
SetPasswordResult ==
  \A m \in Managers : \A k \in 1..Len(pwCalls[m]) :
    (LatestSecret(m, k) /\ pwCalls[m][k].pc = "done") =>
      /\ DOMAIN keyRing[m] = 0..(KEY_RING_SIZE - 1)
      /\ \A j \in 0..(KEY_RING_SIZE - 1) :
           keyRing[m][j] =
             generatePresharedKey(pwCalls[m][k].password) * 256 + j
      /\ currentKeyId[m] = rotated[m] % KEY_RING_SIZE

\* a second secret has replaced the first one after a rotation: the ring is
\* the second secret's and the index is back at 0
SetPasswordResultWitness ==
  /\ Len(pwCalls["A"]) >= 2
  /\ pwCalls["A"][1].password = "test-pass"
  /\ \E k \in 2..Len(pwCalls["A"]) :
       /\ pwCalls["A"][k].password = "other-pass"
       /\ pwCalls["A"][k].pc = "done"
  /\ rotLog["A"].called /\ rotLog["A"].hadKey /\ rotLog["A"].after = 1
  /\ keyRing["A"][255] = 2 * 256 + 255
  /\ currentKeyId["A"] = 0

\* C17: a rotateKey call with a current key moves currentKeyId to the next
\* index modulo 256, a call without one leaves it alone, and in both cases
\* the key ring, the base key and the send counters are as before the call
RotateKeyStep ==
  \A m \in Managers :
    rotLog[m].called =>
      /\ rotLog[m].ringKept /\ rotLog[m].baseKept /\ rotLog[m].countsKept
      /\ rotLog[m].after =
           IF rotLog[m].hadKey
           THEN (rotLog[m].before + 1) % KEY_RING_SIZE
           ELSE rotLog[m].before

\* a rotation with a current key and send counters, while a prefill is
\* still writing the ring
RotateKeyStepWitness ==
  /\ rotLog["A"].called /\ rotLog["A"].hadKey /\ rotLog["A"].hadCounts
  /\ rotLog["A"].after = rotLog["A"].before + 1
  /\ InFlight("A")

\* a setPassword call of m with the empty password begins in this step
EmptySecretCall(m) ==
  /\ Len(pwCalls'[m]) = Len(pwCalls[m]) + 1
  /\ pwCalls'[m][Len(pwCalls'[m])].password = ""

\* C18: setPassword("") returns at once and leaves the base key, every slot
\* of the key ring, currentKeyId and the send counters as they were
EmptySecretNoOp ==
  [][\A m \in Managers :
       EmptySecretCall(m) =>
         /\ pwCalls'[m][Len(pwCalls'[m])].pc = "done"
         /\ presharedKey'[m] = presharedKey[m]
         /\ keyRing'[m] = keyRing[m]
         /\ currentKeyId'[m] = currentKeyId[m]
         /\ sendCounts'[m] = sendCounts[m]]_vars

\* an empty password was set on a manager that has an active key, a rotated
\* index and send counters, and they are all still there
EmptySecretNoOpWitness ==
  /\ \E k \in 2..Len(pwCalls["A"]) :
       /\ pwCalls["A"][k].password = ""
       /\ pwCalls["A"][k].pc = "done"
       /\ pwCalls["A"][k - 1].password # ""
       /\ pwCalls["A"][k - 1].pc = "done"
  /\ Len(pwCalls["A"]) = 2
  /\ currentCryptoKey("A") # Undefined
  /\ presharedKey["A"] # Undefined
  /\ currentKeyId["A"] = 1
  /\ sendCounts["A"] # << >>

\* the scope and key index a KeyInfo was set for: no participant is the
\* shared scope, no key index is index 0
ScopeOf(keyInfo) == << keyInfo.participantId, OrElse(keyInfo.keyIndex, 0) >>

\* the map key a KeyInfo was stored under
MapKeyOf(keyInfo) == mapKey(keyInfo.participantId, keyInfo.keyIndex)

\* of the KeyInfo history, whose i-th entry was set for labels[i]: one entry
\* per label, in the order the labels first came, each the latest of its label
Snapshot(history, labels) ==
  LET n == Len(history)
      firsts == {i \in 1..n : \A j \in 1..(i - 1) : labels[j] # labels[i]}
      nth(r) == CHOOSE i \in firsts : Cardinality({j \in firsts : j < i}) = r - 1
      latest(i) == CHOOSE j \in i..n :
                     /\ labels[j] = labels[i]
                     /\ \A l \in (j + 1)..n : labels[l] # labels[i]
  IN  [r \in 1..Cardinality(firsts) |-> history[latest(nth(r))]]

\* the KeyInfo set before the held array was returned
SetsBeforeReturn == SubSeq(keySets, 1, heldKeys.sets)

\* C19, as claimed: the array getKeys returned holds one KeyInfo per scope
\* (participant id or shared) and key index, in the order the scopes were
\* first set, each the latest set for its scope and index before the call,
\* and key-set operations after the call have not changed the array
GetKeysPerScope ==
  heldKeys.held =>
    /\ heldKeys.returned =
         Snapshot(SetsBeforeReturn,
                  [i \in 1..heldKeys.sets |-> ScopeOf(keySets[i])])
    /\ ArrayItems(heldKeys.array) = heldKeys.returned

\* C19, what getKeys does guarantee: the same with one KeyInfo per map key,
\* where a participant called "shared" and no participant share the map key
GetKeysPerMapKey ==
  heldKeys.held =>
    /\ heldKeys.returned =
         Snapshot(SetsBeforeReturn,
                  [i \in 1..heldKeys.sets |-> MapKeyOf(keySets[i])])
    /\ ArrayItems(heldKeys.array) = heldKeys.returned

\* getKeys returned two entries in the order they were set; a key set after
\* the call replaced the first entry in the Map and not in the array
GetKeysPerMapKeyWitness ==
  /\ heldKeys.held
  /\ heldKeys.sets = 2
  /\ heldKeys.returned = << keySets[1], keySets[2] >>
  /\ Len(keySets) = 3
  /\ keySets[3] # keySets[1]
  /\ MapValues(keyInfoMap) = << keySets[3], keySets[2] >>
  /\ ArrayItems(heldKeys.array) = << keySets[1], keySets[2] >>

\* C21, as claimed: whenever a slot of the key ring is populated, a prefill
\* in progress included, the slot at currentKeyId is populated
CurrentSlotPopulated ==
  \A m \in Managers :
    keyRing[m] # << >> => currentCryptoKey(m) # Undefined

\* C21, what the ring does guarantee: once slot 0, the slot a prefill fills
\* last, is populated, the slot at currentKeyId is populated, whatever
\* rotations have happened
CurrentSlotPopulatedAfterPrefill ==
  \A m \in Managers :
    0 \in DOMAIN keyRing[m] => currentCryptoKey(m) # Undefined

\* the index has wrapped round the full ring and points at slot 0 again
CurrentSlotPopulatedAfterPrefillWitness ==
  /\ pwDone("A") = 1
  /\ rotated["A"] = KEY_RING_SIZE
  /\ currentKeyId["A"] = 0
  /\ currentCryptoKey("A") # Undefined

\* C22, as claimed: the ring an encode or decode call finds holds keys of
\* one base key only, the one before a setPassword or the one after it
NoMixedRingObserved ==
  \A m \in Managers :
    /\ \A k \in 1..Len(encLog[m]) : ~encLog[m][k].mixed
    /\ \A k \in 1..Len(encPipe[m]) : ~encPipe[m][k].record.mixed
    /\ \A k \in 1..Len(decLog[m]) : ~decLog[m][k].mixed
    /\ \A k \in 1..Len(decPipe[m]) : ~decPipe[m][k].record.mixed

\* the send count the latest makeIV call of m read for the SSRC of the nonce
\* runs, and the random seed that SSRC started with
CountRead(m) == sendCounts[m][FixedSsrc] - 1
SeedDrawn(m) == sendCounts[m][FixedSsrc] - ivCalls[m]

\* the nonce of the latest makeIV call of m is SSRC, timestamp and the
\* count it read reduced modulo modulus, each as a big-endian u32
NonceIs(m, modulus) ==
  /\ Len(lastIV[m]) = IV_LENGTH
  /\ SubSeq(lastIV[m], 1, 4) = BE32(FixedSsrc)
  /\ \E ts \in Timestamps : SubSeq(lastIV[m], 5, 8) = BE32(ts)
  /\ SubSeq(lastIV[m], 9, 12) = BE32(CountRead(m) % modulus)

\* C23, as claimed: the counter field of the nonce is the send count modulo
\* 65536, and a new SSRC starts with a count in [0, 65536)
NonceValue ==
  ivCalls["A"] > 0 =>
    /\ NonceIs("A", 65536)
    /\ SeedDrawn("A") \in 0..65535

\* C23, what makeIV does return: the counter field is the send count modulo
\* 65535 (0xffff), and a new SSRC starts with a count in [0, 65535)
NonceValueModulus ==
  ivCalls["A"] > 0 =>
    /\ NonceIs("A", SEND_COUNT_MODULUS)
    /\ SeedDrawn("A") \in 0..(SEND_COUNT_MODULUS - 1)

\* the call that read the count 65535: its counter field is 0
NonceValueModulusWitness ==
  /\ ivCalls["A"] > 0
  /\ CountRead("A") = SEND_COUNT_MODULUS
  /\ SubSeq(lastIV["A"], 9, 12) = << 0, 0, 0, 0 >>

\* the SSRCs of m whose stored counter this step sets or changes
CountersChanged(m) ==
  { ssrc \in DOMAIN sendCounts'[m] :
      ssrc \notin DOMAIN sendCounts[m] \/ sendCounts'[m][ssrc] # sendCounts[m][ssrc] }

\* this step is one of setPassword, of rotateKey or of decodeFunction
KeyOrDecodeStep(m) ==
  \/ pwCalls'[m] # pwCalls[m] \/ keyRing'[m] # keyRing[m]
  \/ presharedKey'[m] # presharedKey[m] \/ currentKeyId'[m] # currentKeyId[m]
  \/ rotLog'[m] # rotLog[m]
  \/ decLog'[m] # decLog[m] \/ decPipe'[m] # decPipe[m]

\* C24: a makeIV call sets or raises by exactly 1 the stored counter of its
\* SSRC and of no other; every counter that is stored stays stored and never
\* goes down; setPassword, rotateKey and decodeFunction change no counter
CountersPerSsrc ==
  [][\A m \in Managers :
       /\ \A ssrc \in DOMAIN sendCounts[m] :
            /\ ssrc \in DOMAIN sendCounts'[m]
            /\ sendCounts'[m][ssrc] \in {sendCounts[m][ssrc], sendCounts[m][ssrc] + 1}
       /\ Cardinality(CountersChanged(m)) = ivCalls'[m] - ivCalls[m]
       /\ ivCalls'[m] - ivCalls[m] \in {0, 1}
       /\ KeyOrDecodeStep(m) => sendCounts'[m] = sendCounts[m]]_vars

\* both SSRCs have a counter, one of them raised twice, and the manager has
\* since been re-keyed, rotated and has decoded a frame
CountersPerSsrcWitness ==
  /\ DOMAIN sendCounts["A"] = Ssrcs
  /\ sendCounts["A"][FixedSsrc] = 2
  /\ sendCounts["A"][777] = 1
  /\ pwDone("A") = 2
  /\ rotLog["A"].called /\ rotLog["A"].hadKey /\ rotLog["A"].hadCounts
  /\ decLog["A"] # << >>
  /\ decLog["A"][1].hadKey

\* the k-th setPassword call of the worker is waiting for a key derivation
CallPending(k) ==
  /\ k <= Len(pwCalls["A"])
  /\ pwCalls["A"][k].pc \in {"import", "derive"}

\* the k-th setPassword call has returned and all 256 slots are populated
CallCompleted(k) ==
  /\ k <= Len(pwCalls["A"])
  /\ pwCalls["A"][k].pc = "done"
  /\ DOMAIN keyRing["A"] = 0..(KEY_RING_SIZE - 1)

\* the k-th setPassword call has ended with the rejection of a derivation
CallRejected(k) ==
  /\ k <= Len(pwCalls["A"])
  /\ pwCalls["A"][k].pc = "failed"

\* every frame given to the pipes has been forwarded or dropped
FramesSettled == encPipe["A"] = << >> /\ decPipe["A"] = << >>

\* C25, as claimed: when every crypto operation that was started is settled
\* in the end, every setPassword call completes with all 256 slots populated
\* and every frame given to a pipe is forwarded or dropped
ProgressToFullRing ==
  /\ \A k \in 1..MaxSetPassword : CallPending(k) ~> CallCompleted(k)
  /\ ~FramesSettled ~> FramesSettled

\* C25, what is guaranteed: every setPassword call ends, with all 256 slots
\* populated or with the rejection of one of its derivations, and every frame
\* given to a pipe is forwarded or dropped
ProgressToEnd ==
  /\ \A k \in 1..MaxSetPassword :
       CallPending(k) ~> (CallCompleted(k) \/ CallRejected(k))
  /\ \A k \in 1..MaxSetPassword :
       [](k <= Len(pwCalls["A"]) /\ pwCalls["A"][k].pc = "done" => CallCompleted(k))
  /\ ~FramesSettled ~> FramesSettled

\* the call has completed with a full ring, the encode pipe has sent its
\* frame encrypted and the decode pipe has decrypted it
ProgressToEndWitness ==
  /\ CallCompleted(1)
  /\ FramesSettled
  /\ Len(encLog["A"]) = 1 /\ encLog["A"][1].encrypted /\ encLog["A"][1].out # << >>
  /\ Len(decLog["A"]) = 1 /\ decLog["A"][1].decrypted

\* the payload an encode call forwarded opens under key with the nonce it
\* carries
OpensUnder(record, key) ==
  LET data == record.out[1]
      len == Len(data)
      hl == UNENCRYPTED_BYTES(record.frame.type)
  IN  AeadDecrypt(key, Slice(data, len - IV_LENGTH - 2, IV_LENGTH),
                  Slice(data, 0, hl),
                  Slice(data, hl, len - (hl + IV_LENGTH + 2))).ok

\* C26: the last byte of every encrypted frame encodeFunction forwards is
\* the index currentKeyId had when encodeFunction was called, and the frame
\* opens under the key that slot held then, whatever rotateKey calls came
\* between the start of the encryption and its completion
TrailerMatchesKey ==
  \A m \in Managers : \A k \in 1..Len(encLog[m]) :
    (encLog[m][k].encrypted /\ encLog[m][k].out # << >>) =>
      /\ encLog[m][k].out[1][Len(encLog[m][k].out[1])] = encLog[m][k].keyId
      /\ OpensUnder(encLog[m][k], encLog[m][k].key)

\* a frame was forwarded with index 0 in its trailer after a rotateKey call
\* had moved the index from 0 to 1 while its encryption was pending
TrailerMatchesKeyWitness ==
  /\ Len(encLog["A"]) = 1 /\ encPipe["A"] = << >>
  /\ encLog["A"][1].encrypted /\ encLog["A"][1].out # << >>
  /\ encLog["A"][1].keyId = 0
  /\ rotLog["A"].called /\ rotLog["A"].hadKey /\ rotLog["A"].pending
  /\ rotLog["A"].before = 0 /\ rotLog["A"].after = 1
  /\ currentKeyId["A"] = 1

\* C27: whenever the current key is set, all 256 slots of the key ring are
\* populated, so the getKeyForId call of decodeFunction, which is made only
\* when the current key is set, finds a key for every index byte
KeyNotFoundUnreachable ==
  \A m \in Managers :
    currentCryptoKey(m) # Undefined =>
      \A id \in 0..(KEY_RING_SIZE - 1) : getKeyForId(m, id) # Undefined

\* decodeFunction looked up the key of index 7, which is not the current
\* index, for a frame that did not come from an encoder, and found it
KeyNotFoundUnreachableWitness ==
  /\ Len(decLog["A"]) = 1
  /\ decLog["A"][1].hadKey
  /\ decLog["A"][1].frame.data = Rep(10, 7)
  /\ decLog["A"][1].keyId = 7
  /\ decLog["A"][1].currentKeyId = 1

\* C28, as claimed: once two overlapping setPassword calls with different
\* secrets have both completed, all 256 slots hold the keys of one base key,
\* and this base key is the preshared key
OverlapConverges ==
  \A m \in Managers :
    (Len(pwCalls[m]) = 2 /\ pwDone(m) = 2) =>
      /\ presharedKey[m] # Undefined
      /\ RingFullFrom(m, presharedKey[m])

\* the payload an encode call forwarded ends with the nonce of the call and
\* the trailer [12, keyIndex]
EndsWithNonceAndTrailer(record) ==
  LET data == record.out[1]
      len == Len(data)
  IN  /\ len >= IV_LENGTH + 2
      /\ SubSeq(data, len - IV_LENGTH - 1, len - 2) = record.iv
      /\ SubSeq(data, len - 1, len) = << IV_LENGTH, record.keyId >>

\* C29, as claimed: every frame with a non-empty payload that encodeFunction
\* forwards when the current key is set has been encrypted, and a frame is
\* forwarded with its original payload only when no key is set or the
\* payload is empty
NoCleartextWithKey ==
  \A m \in Managers : \A k \in 1..Len(encLog[m]) :
    LET record == encLog[m][k]
    IN  /\ (record.key # Undefined /\ record.frame.data # << >> /\ record.out # << >>) =>
             (record.encrypted /\ EndsWithNonceAndTrailer(record))
        /\ record.out = << record.frame.data >> =>
             (record.key = Undefined \/ record.frame.data = << >>)

\* C29, what encodeFunction does guarantee: the same for the frames whose
\* payload is at least as long as the unencrypted header of their type
NoCleartextWithKeyAndHeader ==
  \A m \in Managers : \A k \in 1..Len(encLog[m]) :
    LET record == encLog[m][k]
        whole == Len(record.frame.data) >= UNENCRYPTED_BYTES(record.frame.type)
    IN  /\ (record.key # Undefined /\ record.frame.data # << >> /\ record.out # << >>
             /\ whole) =>
             (record.encrypted /\ EndsWithNonceAndTrailer(record))
        /\ (record.out = << record.frame.data >> /\ whole) =>
             (record.key = Undefined \/ record.frame.data = << >>)

\* with the current key set, the encode pipe has sent one frame encrypted and
\* has dropped another whose encryption was rejected
NoCleartextWithKeyAndHeaderWitness ==
  /\ Len(encLog["A"]) = 2
  /\ encLog["A"][1].key # Undefined /\ encLog["A"][1].encrypted
  /\ encLog["A"][1].out # << >>
  /\ encLog["A"][2].key # Undefined /\ encLog["A"][2].rejected
  /\ encLog["A"][2].out = << >>

====
